---- MODULE Spec2Model ----
(***************************************************************************)
(* State-machine model of the scheduler core of pa2.c: the six scheduling  *)
(* policies (FIFO, SJF, SRTF, Round-Robin, Priority, Priority+PIP) and the *)
(* three resource acquire/release variants (FCFS, Priority, PIP), driven   *)
(* by the tick loop of the simulation framework.                           *)
(***************************************************************************)
EXTENDS Integers, Sequences, FiniteSets, TLC

(* ------------------------------ bounds --------------------------------- *)
NProc == 3        \* processes that may be forked
NRes == 2         \* resources of the table that the processes use
MaxLife == 3      \* largest lifespan of a forked process
MaxPrio == 1      \* largest priority of a forked process
RRLife == 3       \* largest lifespan in the round-robin trace specification
MaxHist == 8      \* events kept in the round-robin trace
NProcF == 4       \* processes in the resource service order specification
FLife == 2        \* largest lifespan in that specification

(* -------------------------- program constants -------------------------- *)
MinInit == 100000 \* initial value of `min' in sjf_schedule / srtf_schedule

NULL == 0
Procs == 1..(IF NProcF > NProc THEN NProcF ELSE NProc)
Res == 1..NRes

PROCESS_READY == "READY"
PROCESS_RUNNING == "RUNNING"
PROCESS_WAIT == "WAIT"
PROCESS_EXIT == "EXIT"       \* decommissioned by the framework
PROCESS_NONE == "NONE"       \* not forked yet

Policies == {"fifo", "sjf", "srtf", "rr", "prio", "pip"}

VARIABLES
  policy,      \* the scheduler selected at start-up
  status,      \* process -> status
  lifespan,    \* process -> lifespan
  age,         \* process -> age
  prio,        \* process -> current priority
  prio_orig,   \* process -> original priority
  want,        \* process -> resource it has to acquire before it can run (0: none)
  more,        \* process -> the resources it has to acquire after that one
  req,         \* resource -> processes refused and not served yet, oldest first
  readyqueue,  \* list of processes ready to run
  owner,       \* resource -> owner (NULL: free)
  waitqueue,   \* resource -> list of waiting processes
  current,     \* the running process (NULL: none)
  pc,          \* position of the tick loop: "sched", "acquire", "release"
  op,          \* the last call made by the tick loop and its result
  snap,        \* ready queue and priorities before the last successful acquire
  hist,        \* trace of fork/schedule events (round-robin trace specification)
  fatal        \* an assert() of the program has failed

vars == <<policy, status, lifespan, age, prio, prio_orig, want, more, req,
          readyqueue,
          owner, waitqueue, current, pc, op, snap, hist, fatal>>

(* ------------------------------ lists ---------------------------------- *)
\* list_del_init(&p->list): unlink p
Remove(q, p) == SelectSeq(q, LAMBDA x : x # p)

\* list_for_each_entry(next, q, list) if (max < f(next)) max = f(next);
RECURSIVE MaxOver(_, _, _)
MaxOver(q, f, m) ==
  IF q = <<>> THEN m
  ELSE MaxOver(Tail(q), f, IF m < f[Head(q)] THEN f[Head(q)] ELSE m)

\* list_for_each_entry(next, q, list) if (min > f(next)) min = f(next);
RECURSIVE MinOver(_, _, _)
MinOver(q, f, m) ==
  IF q = <<>> THEN m
  ELSE MinOver(Tail(q), f, IF m > f[Head(q)] THEN f[Head(q)] ELSE m)

\* list_for_each_entry(next, q, list) if (v == f(next)) break;
\* the cursor after a loop that never breaks is the list head itself (NoEntry)
NoEntry == -1
RECURSIVE FirstWith(_, _, _)
FirstWith(q, f, v) ==
  IF q = <<>> THEN NoEntry
  ELSE IF f[Head(q)] = v THEN Head(q) ELSE FirstWith(Tail(q), f, v)

InQueue(q, p) == \E i \in 1..Len(q) : q[i] = p
Count(q, p) == Cardinality({i \in 1..Len(q) : q[i] = p})

remaining == [p \in Procs |-> lifespan[p] - age[p]]

\* !current || current->status == PROCESS_WAIT
NoCurrent == current = NULL \/ status[current] = PROCESS_WAIT

\* current->age < current->lifespan
Unfinished == age[current] < lifespan[current]

(* --------------------------- FIFO scheduler ---------------------------- *)
\* fifo_schedule taking the head of the ready queue at every tick
fifo_schedule_rotate ==
  IF ~NoCurrent /\ Unfinished /\ readyqueue = <<>>
  THEN [next |-> current, rq |-> readyqueue]
  ELSE IF readyqueue # <<>>
       THEN IF ~NoCurrent /\ Unfinished
            THEN [next |-> Head(readyqueue),
                  rq |-> Append(Tail(readyqueue), current)]
            ELSE [next |-> Head(readyqueue), rq |-> Tail(readyqueue)]
       ELSE [next |-> NULL, rq |-> readyqueue]

fifo_schedule ==
  IF ~NoCurrent /\ Unfinished
  THEN [next |-> current, rq |-> readyqueue]
  ELSE IF readyqueue # <<>>
       THEN [next |-> Head(readyqueue), rq |-> Tail(readyqueue)]
       ELSE [next |-> NULL, rq |-> readyqueue]

(* ---------------------------- SJF scheduler ---------------------------- *)
\* sjf_schedule that picks a new process only when there is no current one:
\* the tick after a completion is left idle
sjf_schedule_idle ==
  IF ~NoCurrent /\ Unfinished
  THEN [next |-> current, rq |-> readyqueue]
  ELSE IF NoCurrent /\ readyqueue # <<>>
       THEN LET min == MinOver(readyqueue, lifespan, MinInit)
                next == FirstWith(readyqueue, lifespan, min)
            IN  [next |-> next, rq |-> Remove(readyqueue, next)]
       ELSE [next |-> NULL, rq |-> readyqueue]

sjf_schedule ==
  IF ~NoCurrent /\ Unfinished
  THEN [next |-> current, rq |-> readyqueue]
  ELSE IF readyqueue # <<>>
       THEN LET min == MinOver(readyqueue, lifespan, MinInit)
                next == FirstWith(readyqueue, lifespan, min)
            IN  [next |-> next, rq |-> Remove(readyqueue, next)]
       ELSE [next |-> NULL, rq |-> readyqueue]

(* ---------------------------- SRTF scheduler --------------------------- *)
\* srtf_schedule preempting on >= instead of >
srtf_schedule_ge ==
  LET min == MinOver(readyqueue, remaining, MinInit)
      next == IF readyqueue # <<>>
              THEN FirstWith(readyqueue, remaining, min) ELSE NULL
      pick_next(rq) == IF rq # <<>>
                       THEN [next |-> next, rq |-> Remove(rq, next)]
                       ELSE [next |-> next, rq |-> rq]
  IN  IF NoCurrent THEN pick_next(readyqueue)
      ELSE IF Unfinished
           THEN IF remaining[current] >= min
                THEN pick_next(Append(readyqueue, current))
                ELSE [next |-> current, rq |-> readyqueue]
           ELSE pick_next(readyqueue)

\* srtf_schedule without the test of the WAIT status on line 266
srtf_schedule_nowait ==
  LET min == MinOver(readyqueue, remaining, MinInit)
      next == IF readyqueue # <<>>
              THEN FirstWith(readyqueue, remaining, min) ELSE NULL
      pick_next(rq) == IF rq # <<>>
                       THEN [next |-> next, rq |-> Remove(rq, next)]
                       ELSE [next |-> next, rq |-> rq]
  IN  IF current = NULL THEN pick_next(readyqueue)
      ELSE IF Unfinished
           THEN IF remaining[current] > min
                THEN pick_next(Append(readyqueue, current))
                ELSE [next |-> current, rq |-> readyqueue]
           ELSE pick_next(readyqueue)

srtf_schedule ==
  LET min == MinOver(readyqueue, remaining, MinInit)
      next == IF readyqueue # <<>>
              THEN FirstWith(readyqueue, remaining, min) ELSE NULL
      \* pick_next: on the ready queue as it is when the label is reached
      pick_next(rq) == IF rq # <<>>
                       THEN [next |-> next, rq |-> Remove(rq, next)]
                       ELSE [next |-> next, rq |-> rq]
  IN  IF NoCurrent THEN pick_next(readyqueue)
      ELSE IF Unfinished
           THEN IF remaining[current] > min
                THEN pick_next(Append(readyqueue, current))
                ELSE [next |-> current, rq |-> readyqueue]
           ELSE pick_next(readyqueue)

(* ------------------------ Round-robin scheduler ------------------------ *)
\* rr_schedule that lets an unfinished current process go on, as FIFO does
rr_schedule_nopreempt ==
  IF ~NoCurrent /\ Unfinished
  THEN [next |-> current, rq |-> readyqueue]
  ELSE IF readyqueue # <<>>
       THEN [next |-> Head(readyqueue), rq |-> Tail(readyqueue)]
       ELSE [next |-> NULL, rq |-> readyqueue]

\* rr_schedule without the test of age == lifespan on line 299
rr_schedule_requeuedone ==
  LET pick_next(rq) == IF rq # <<>>
                       THEN [next |-> Head(rq), rq |-> Tail(rq)]
                       ELSE [next |-> NULL, rq |-> rq]
  IN  IF NoCurrent
      THEN pick_next(readyqueue)
      ELSE IF Unfinished /\ readyqueue = <<>>
           THEN [next |-> current, rq |-> readyqueue]
           ELSE IF readyqueue # <<>>
                THEN pick_next(Append(readyqueue, current))
                ELSE pick_next(readyqueue)

\* rr_schedule taking the last entry of the ready queue (list_last_entry)
rr_schedule_last ==
  LET pick_next(rq) == IF rq # <<>>
                       THEN [next |-> rq[Len(rq)],
                             rq |-> SubSeq(rq, 1, Len(rq) - 1)]
                       ELSE [next |-> NULL, rq |-> rq]
  IN  IF NoCurrent \/ age[current] = lifespan[current]
      THEN pick_next(readyqueue)
      ELSE IF Unfinished /\ readyqueue = <<>>
           THEN [next |-> current, rq |-> readyqueue]
           ELSE IF readyqueue # <<>>
                THEN pick_next(Append(readyqueue, current))
                ELSE pick_next(readyqueue)

rr_schedule ==
  LET pick_next(rq) == IF rq # <<>>
                       THEN [next |-> Head(rq), rq |-> Tail(rq)]
                       ELSE [next |-> NULL, rq |-> rq]
  IN  IF NoCurrent \/ age[current] = lifespan[current]
      THEN pick_next(readyqueue)
      ELSE IF Unfinished /\ readyqueue = <<>>
           THEN [next |-> current, rq |-> readyqueue]
           ELSE IF readyqueue # <<>>
                THEN pick_next(Append(readyqueue, current))
                ELSE pick_next(readyqueue)

(* -------------------------- Priority scheduler ------------------------- *)
\* prio_schedule without the list_del_init(&next->list) of the preempting path
prio_schedule_nodel ==
  IF NoCurrent \/ age[current] = lifespan[current]
  THEN IF readyqueue # <<>>
       THEN LET max == MaxOver(readyqueue, prio_orig, prio_orig[Head(readyqueue)])
                next == FirstWith(readyqueue, prio_orig, max)
            IN  [next |-> next, rq |-> Remove(readyqueue, next)]
       ELSE [next |-> NULL, rq |-> readyqueue]
  ELSE IF Unfinished /\ readyqueue = <<>>
       THEN [next |-> current, rq |-> readyqueue]
       ELSE IF readyqueue # <<>>
            THEN LET max == MaxOver(readyqueue, prio_orig, prio_orig[current])
                     next == FirstWith(readyqueue, prio_orig, max)
                 IN  IF next # NoEntry
                     THEN [next |-> next, rq |-> Append(readyqueue, current)]
                     ELSE [next |-> current, rq |-> readyqueue]
            ELSE [next |-> NULL, rq |-> readyqueue]

\* prio_schedule whose pick_next takes the first ready process, as FIFO does
prio_schedule_pickhead ==
  IF NoCurrent \/ age[current] = lifespan[current]
  THEN IF readyqueue # <<>>
       THEN [next |-> Head(readyqueue), rq |-> Tail(readyqueue)]
       ELSE [next |-> NULL, rq |-> readyqueue]
  ELSE IF Unfinished /\ readyqueue = <<>>
       THEN [next |-> current, rq |-> readyqueue]
       ELSE IF readyqueue # <<>>
            THEN LET max == MaxOver(readyqueue, prio_orig, prio_orig[current])
                     next == FirstWith(readyqueue, prio_orig, max)
                     check == IF next # NoEntry THEN 1 ELSE 0
                 IN  IF check = 1
                     THEN [next |-> next,
                           rq |-> Remove(Append(readyqueue, current), next)]
                     ELSE [next |-> current, rq |-> readyqueue]
            ELSE [next |-> NULL, rq |-> readyqueue]

prio_schedule ==
  IF NoCurrent \/ age[current] = lifespan[current]
  THEN \* pick_next
       IF readyqueue # <<>>
       THEN LET max == MaxOver(readyqueue, prio_orig, prio_orig[Head(readyqueue)])
                next == FirstWith(readyqueue, prio_orig, max)
            IN  [next |-> next, rq |-> Remove(readyqueue, next)]
       ELSE [next |-> NULL, rq |-> readyqueue]
  ELSE IF Unfinished /\ readyqueue = <<>>
       THEN [next |-> current, rq |-> readyqueue]
       ELSE IF readyqueue # <<>>
            THEN LET max == MaxOver(readyqueue, prio_orig, prio_orig[current])
                     next == FirstWith(readyqueue, prio_orig, max)
                     check == IF next # NoEntry THEN 1 ELSE 0
                 IN  IF check = 1
                     THEN [next |-> next,
                           rq |-> Remove(Append(readyqueue, current), next)]
                     ELSE [next |-> current, rq |-> readyqueue]
            ELSE [next |-> NULL, rq |-> readyqueue]

(* ------------- Priority scheduler with priority inheritance ------------ *)
\* pip_schedule with the preempting scan started from the first ready process,
\* as the pick_next scan is, instead of from current->prio
pip_schedule_headmax ==
  IF NoCurrent \/ age[current] = lifespan[current]
  THEN IF readyqueue # <<>>
       THEN LET max == MaxOver(readyqueue, prio, prio[Head(readyqueue)])
                next == FirstWith(readyqueue, prio, max)
            IN  [next |-> next, rq |-> Remove(readyqueue, next)]
       ELSE [next |-> NULL, rq |-> readyqueue]
  ELSE IF Unfinished /\ readyqueue = <<>>
       THEN [next |-> current, rq |-> readyqueue]
       ELSE IF readyqueue # <<>>
            THEN LET max == MaxOver(readyqueue, prio, prio[Head(readyqueue)])
                     next == FirstWith(readyqueue, prio, max)
                 IN  IF next # NoEntry
                     THEN [next |-> next,
                           rq |-> Remove(Append(readyqueue, current), next)]
                     ELSE [next |-> current, rq |-> readyqueue]
            ELSE [next |-> NULL, rq |-> readyqueue]

pip_schedule ==
  IF NoCurrent \/ age[current] = lifespan[current]
  THEN \* pick_next
       IF readyqueue # <<>>
       THEN LET max == MaxOver(readyqueue, prio, prio[Head(readyqueue)])
                next == FirstWith(readyqueue, prio, max)
            IN  [next |-> next, rq |-> Remove(readyqueue, next)]
       ELSE [next |-> NULL, rq |-> readyqueue]
  ELSE IF Unfinished /\ readyqueue = <<>>
       THEN [next |-> current, rq |-> readyqueue]
       ELSE IF readyqueue # <<>>
            THEN LET max == MaxOver(readyqueue, prio, prio[current])
                     next == FirstWith(readyqueue, prio, max)
                     check == IF next # NoEntry THEN 1 ELSE 0
                 IN  IF check = 1
                     THEN [next |-> next,
                           rq |-> Remove(Append(readyqueue, current), next)]
                     ELSE [next |-> current, rq |-> readyqueue]
            ELSE [next |-> NULL, rq |-> readyqueue]

\* struct scheduler: the .schedule member of the selected policy
schedule ==
  CASE policy = "fifo" -> fifo_schedule
    [] policy = "sjf"  -> sjf_schedule
    [] policy = "srtf" -> srtf_schedule
    [] policy = "rr"   -> rr_schedule
    [] policy = "prio" -> prio_schedule
    [] policy = "pip"  -> pip_schedule

(* ------------------- resource acquire / release: FCFS ------------------ *)
\* fcfs_acquire with list_add() for list_add_tail(): the caller jumps the queue
fcfs_acquire_head(r) ==
  IF owner[r] = NULL
  THEN [ok |-> TRUE, owner |-> [owner EXCEPT ![r] = current],
        status |-> status, prio |-> prio, waitqueue |-> waitqueue]
  ELSE [ok |-> FALSE, owner |-> owner,
        status |-> [status EXCEPT ![current] = PROCESS_WAIT], prio |-> prio,
        waitqueue |-> [waitqueue EXCEPT ![r] = <<current>> \o @]]

\* The result of an acquire: the return value and the fields it leaves behind.
fcfs_acquire(r) ==
  IF owner[r] = NULL
  THEN [ok |-> TRUE, owner |-> [owner EXCEPT ![r] = current],
        status |-> status, prio |-> prio, waitqueue |-> waitqueue]
  ELSE [ok |-> FALSE, owner |-> owner,
        status |-> [status EXCEPT ![current] = PROCESS_WAIT], prio |-> prio,
        waitqueue |-> [waitqueue EXCEPT ![r] = Append(@, current)]]

\* A failed assert() aborts the program: nothing after it is executed.
Abort == [fatal |-> TRUE, owner |-> owner, status |-> status, prio |-> prio,
          waitqueue |-> waitqueue, readyqueue |-> readyqueue]

fcfs_release(r) ==
  IF owner[r] # current THEN Abort
  ELSE IF waitqueue[r] = <<>>
  THEN [fatal |-> FALSE, owner |-> [owner EXCEPT ![r] = NULL], status |-> status,
        prio |-> prio, waitqueue |-> waitqueue, readyqueue |-> readyqueue]
  ELSE LET waiter == Head(waitqueue[r])
       IN  IF status[waiter] # PROCESS_WAIT THEN Abort
           ELSE [fatal |-> FALSE, owner |-> [owner EXCEPT ![r] = NULL],
                 status |-> [status EXCEPT ![waiter] = PROCESS_READY],
                 prio |-> prio,
                 waitqueue |-> [waitqueue EXCEPT ![r] = Remove(@, waiter)],
                 readyqueue |-> Append(readyqueue, waiter)]

(* ----------------- resource acquire / release: Priority ---------------- *)
\* prio_acquire that forgets to put the caller in PROCESS_WAIT
prio_acquire_nostatus(r) ==
  IF owner[r] = NULL
  THEN [ok |-> TRUE, owner |-> [owner EXCEPT ![r] = current],
        status |-> status, prio |-> prio, waitqueue |-> waitqueue]
  ELSE [ok |-> FALSE, owner |-> owner, status |-> status, prio |-> prio,
        waitqueue |-> [waitqueue EXCEPT ![r] = Append(@, current)]]

prio_acquire(r) ==
  IF owner[r] = NULL
  THEN [ok |-> TRUE, owner |-> [owner EXCEPT ![r] = current],
        status |-> status, prio |-> prio, waitqueue |-> waitqueue]
  ELSE [ok |-> FALSE, owner |-> owner,
        status |-> [status EXCEPT ![current] = PROCESS_WAIT], prio |-> prio,
        waitqueue |-> [waitqueue EXCEPT ![r] = Append(@, current)]]

prio_release(r) ==
  IF owner[r] # current THEN Abort
  ELSE IF waitqueue[r] = <<>>
  THEN [fatal |-> FALSE, owner |-> [owner EXCEPT ![r] = NULL], status |-> status,
        prio |-> prio, waitqueue |-> waitqueue, readyqueue |-> readyqueue]
  ELSE LET max == MaxOver(waitqueue[r], prio_orig, prio_orig[Head(waitqueue[r])])
           \* the function-scope p, left at the first waiter of maximal prio_orig
           p_outer == FirstWith(waitqueue[r], prio_orig, max)
           \* line 407 declares a new p in the block: the first entry of the list
           p == Head(waitqueue[r])
       IN  IF status[p] # PROCESS_WAIT THEN Abort
           ELSE [fatal |-> FALSE, owner |-> [owner EXCEPT ![r] = NULL],
                 status |-> [status EXCEPT ![p] = PROCESS_READY],
                 prio |-> prio,
                 waitqueue |-> [waitqueue EXCEPT ![r] = Remove(@, p)],
                 readyqueue |-> Append(readyqueue, p)]

(* ------------------- resource acquire / release: PIP ------------------- *)
\* pip_acquire without the inheritance of lines 487-489
pip_acquire_noinherit(r) ==
  IF owner[r] = NULL
  THEN [ok |-> TRUE, owner |-> [owner EXCEPT ![r] = current],
        status |-> status, prio |-> prio, waitqueue |-> waitqueue]
  ELSE [ok |-> FALSE, owner |-> owner,
        status |-> [status EXCEPT ![current] = PROCESS_WAIT], prio |-> prio,
        waitqueue |-> [waitqueue EXCEPT ![r] = Append(@, current)]]

\* pip_acquire giving the owner the caller's prio without comparing them
pip_acquire_always(r) ==
  IF owner[r] = NULL
  THEN [ok |-> TRUE, owner |-> [owner EXCEPT ![r] = current],
        status |-> status, prio |-> prio, waitqueue |-> waitqueue]
  ELSE [ok |-> FALSE, owner |-> owner,
        status |-> [status EXCEPT ![current] = PROCESS_WAIT],
        prio |-> [prio EXCEPT ![owner[r]] = prio[current]],
        waitqueue |-> [waitqueue EXCEPT ![r] = Append(@, current)]]

pip_acquire(r) ==
  IF owner[r] = NULL
  THEN [ok |-> TRUE, owner |-> [owner EXCEPT ![r] = current],
        status |-> status, prio |-> prio, waitqueue |-> waitqueue]
  ELSE [ok |-> FALSE, owner |-> owner,
        status |-> [status EXCEPT ![current] = PROCESS_WAIT],
        prio |-> IF prio[owner[r]] < prio[current]
                 THEN [prio EXCEPT ![owner[r]] = prio[current]] ELSE prio,
        waitqueue |-> [waitqueue EXCEPT ![r] = Append(@, current)]]

RECURSIVE ToList(_)
ToList(S) ==
  IF S = {} THEN <<>>
  ELSE LET x == CHOOSE y \in S : \A z \in S : y <= z
       IN  <<x>> \o ToList(S \ {x})

\* p->__resources_to_acquire: the acquisitions p has not been granted yet
resources_to_acquire(p) ==
  (IF want[p] = 0 THEN <<>> ELSE <<want[p]>>) \o ToList(more[p])

\* pip_release waking the first waiter of the list, whatever its prio
pip_release_head(r) ==
  IF owner[r] # current THEN Abort
  ELSE LET prio1 == [prio EXCEPT ![owner[r]] = prio_orig[owner[r]]]
           owner1 == [owner EXCEPT ![r] = NULL]
       IN  IF waitqueue[r] = <<>>
           THEN [fatal |-> FALSE, owner |-> owner1, status |-> status,
                 prio |-> prio1, waitqueue |-> waitqueue,
                 readyqueue |-> readyqueue]
           ELSE LET p == Head(waitqueue[r])
                IN  IF status[p] # PROCESS_WAIT THEN Abort
                    ELSE [fatal |-> FALSE, owner |-> owner1,
                          status |-> [status EXCEPT ![p] = PROCESS_READY],
                          prio |-> prio1,
                          waitqueue |-> [waitqueue EXCEPT ![r] = Remove(@, p)],
                          readyqueue |-> Append(readyqueue, p)]

pip_release(r) ==
  IF owner[r] # current THEN Abort
  ELSE LET prio1 == [prio EXCEPT ![owner[r]] = prio_orig[owner[r]]]
           owner1 == [owner EXCEPT ![r] = NULL]
       IN  IF waitqueue[r] = <<>>
           THEN [fatal |-> FALSE, owner |-> owner1, status |-> status,
                 prio |-> prio1, waitqueue |-> waitqueue,
                 readyqueue |-> readyqueue]
           ELSE LET max == MaxOver(waitqueue[r], prio1, prio1[Head(waitqueue[r])])
                    p == FirstWith(waitqueue[r], prio1, max)
                    acn == Len(resources_to_acquire(p))
                    hon == Len(resources_to_acquire(p))
                IN  IF status[p] # PROCESS_WAIT THEN Abort
                    ELSE IF acn = hon
                    THEN [fatal |-> FALSE, owner |-> owner1,
                          status |-> [status EXCEPT ![p] = PROCESS_READY],
                          prio |-> prio1,
                          waitqueue |-> [waitqueue EXCEPT ![r] = Remove(@, p)],
                          readyqueue |-> Append(readyqueue, p)]
                    ELSE [fatal |-> FALSE, owner |-> owner1, status |-> status,
                          prio |-> prio1,
                          waitqueue |-> [waitqueue EXCEPT ![r] = Remove(@, p)],
                          readyqueue |-> readyqueue]

\* struct scheduler: the .acquire and .release members of the selected policy
acquire(r) ==
  CASE policy \in {"fifo", "sjf", "srtf", "rr"} -> fcfs_acquire(r)
    [] policy = "prio" -> prio_acquire(r)
    [] policy = "pip"  -> pip_acquire(r)

release(r) ==
  CASE policy \in {"fifo", "sjf", "srtf", "rr"} -> fcfs_release(r)
    [] policy = "prio" -> prio_release(r)
    [] policy = "pip"  -> pip_release(r)

(* ------------------------------ tick loop ------------------------------ *)
\* The framework that calls the scheduler: per tick it forks the processes
\* that arrive, calls schedule(), lets the scheduled process acquire what it
\* needs at this age, ages it by one tick, and lets it release.

NoSnap == [r |-> 0, readyqueue |-> <<>>, prio |-> [p \in Procs |-> 0]]

\* the trace stops being a trace of scheduling alone once a resource is asked for
Used == <<<<"acquire", 0, 0>>>>
Log(h, tr, ev) == IF tr /\ h # Used /\ Len(h) < MaxHist THEN Append(h, ev) ELSE h

\* the tick is over: a process that has completed has released what it held
\* (the framework checks a process on exit, cf. the comments on list_del_init)
CanEndTick ==
  \/ pc = "sched"
  \/ /\ pc = "release"
     /\ age[current] = lifespan[current] => \A r \in Res : owner[r] # current

Start(pols) ==
  /\ policy \in pols
  /\ status = [p \in Procs |-> PROCESS_NONE]
  /\ lifespan = [p \in Procs |-> 0]
  /\ age = [p \in Procs |-> 0]
  /\ prio = [p \in Procs |-> 0]
  /\ prio_orig = [p \in Procs |-> 0]
  /\ want = [p \in Procs |-> 0]
  /\ more = [p \in Procs |-> {}]
  /\ req = [r \in Res |-> <<>>]
  /\ readyqueue = <<>>
  /\ owner = [r \in Res |-> NULL]
  /\ waitqueue = [r \in Res |-> <<>>]
  /\ current = NULL
  /\ pc = "sched"
  /\ op = [name |-> "init", r |-> 0, ok |-> TRUE, p |-> NULL]
  /\ snap = NoSnap
  /\ hist = <<>>
  /\ fatal = FALSE

\* a process arrives: it is appended to the ready queue
Fork(tr, n, maxlife, maxprio) ==
  /\ ~fatal /\ CanEndTick
  /\ \E p \in 1..n, l \in 1..maxlife, pr \in 0..maxprio :
       /\ status[p] = PROCESS_NONE
       /\ \A q \in Procs : q < p => status[q] # PROCESS_NONE
       /\ status' = [status EXCEPT ![p] = PROCESS_READY]
       /\ lifespan' = [lifespan EXCEPT ![p] = l]
       /\ prio' = [prio EXCEPT ![p] = pr]
       /\ prio_orig' = [prio_orig EXCEPT ![p] = pr]
       /\ readyqueue' = Append(readyqueue, p)
       /\ op' = [name |-> "fork", r |-> 0, ok |-> TRUE, p |-> p]
       /\ hist' = Log(hist, tr, <<"fork", p, l>>)
  /\ pc' = "sched"
  /\ snap' = NoSnap
  /\ UNCHANGED <<policy, age, want, more, req, owner, waitqueue, current,
                 fatal>>

\* current = sched->schedule(), then the bookkeeping on the previous process:
\* a running process becomes ready, a completed one is decommissioned (freed)
Schedule(tr) ==
  /\ ~fatal /\ CanEndTick
  /\ LET s == schedule
         prev == current
         exits == prev # NULL /\ age[prev] = lifespan[prev]
         st1 == IF prev # NULL /\ status[prev] = PROCESS_RUNNING
                THEN [status EXCEPT ![prev] = PROCESS_READY] ELSE status
         st2 == IF exits THEN [st1 EXCEPT ![prev] = PROCESS_EXIT] ELSE st1
         Free(f) == IF exits THEN [f EXCEPT ![prev] = 0] ELSE f
     IN  IF s.next \notin Procs \cup {NULL} \/ (exits /\ s.next = prev)
         THEN /\ fatal' = TRUE
              /\ UNCHANGED <<current, readyqueue, status, pc, op, hist,
                             lifespan, age, prio, prio_orig>>
         ELSE /\ current' = s.next
              /\ readyqueue' = s.rq
              /\ status' = IF s.next # NULL
                           THEN [st2 EXCEPT ![s.next] = PROCESS_RUNNING] ELSE st2
              /\ lifespan' = Free(lifespan)
              /\ age' = Free(age)
              /\ prio' = Free(prio)
              /\ prio_orig' = Free(prio_orig)
              /\ pc' = IF s.next = NULL THEN "sched" ELSE "acquire"
              /\ op' = [name |-> "schedule", r |-> 0, ok |-> s.next # NULL,
                        p |-> prev]
              /\ hist' = Log(hist, tr, <<"sched", s.next, 0>>)
              /\ UNCHANGED fatal
  /\ snap' = NoSnap
  /\ UNCHANGED <<policy, want, more, req, owner, waitqueue>>

\* the scheduled process asks for a resource it needs at this age
Acquire(tr) ==
  /\ ~fatal /\ pc = "acquire"
  /\ \E r \in Res :
       /\ owner[r] # current
       /\ want[current] # 0 => r = want[current]
       /\ (want[current] = 0 /\ more[current] # {}) => r \in more[current]
       /\ LET a == acquire(r)
              fresh == want[current] = 0 /\ more[current] = {}
              free == {x \in Res \ {r} : owner[x] # current}
          IN  /\ owner' = a.owner
              /\ \E m \in SUBSET free :
                   /\ (a.ok \/ ~fresh) => m = more[current] \ {r}
                   /\ more' = [more EXCEPT ![current] = m]
              /\ req' = [req EXCEPT ![r] =
                           IF a.ok THEN Remove(@, current)
                           ELSE IF InQueue(@, current) THEN @
                           ELSE Append(@, current)]
              /\ status' = a.status
              /\ prio' = a.prio
              /\ waitqueue' = a.waitqueue
              /\ want' = [want EXCEPT ![current] = IF a.ok THEN 0 ELSE r]
              /\ pc' = IF a.ok THEN "acquire" ELSE "sched"
              /\ op' = [name |-> "acquire", r |-> r, ok |-> a.ok, p |-> current]
              /\ snap' = IF a.ok /\ waitqueue[r] = <<>>
                         THEN [r |-> r, readyqueue |-> readyqueue, prio |-> prio]
                         ELSE NoSnap
  /\ hist' = IF tr THEN Used ELSE hist
  /\ UNCHANGED <<policy, lifespan, age, prio_orig, readyqueue, current, fatal>>

\* all the resources were acquired: the process makes progress for one tick
Run ==
  /\ ~fatal /\ pc = "acquire"
  /\ want[current] = 0 /\ more[current] = {}
  /\ age' = [age EXCEPT ![current] = @ + 1]
  /\ pc' = "release"
  /\ op' = [name |-> "run", r |-> 0, ok |-> TRUE, p |-> current]
  /\ UNCHANGED <<policy, status, lifespan, prio, prio_orig, want, more, req,
                 readyqueue, owner, waitqueue, current, snap, hist, fatal>>

\* the process gives back a resource it holds
Release ==
  /\ ~fatal /\ pc = "release"
  /\ \E r \in Res :
       /\ owner[r] = current
       /\ LET rel == release(r)
          IN  /\ owner' = rel.owner
              /\ status' = rel.status
              /\ prio' = rel.prio
              /\ waitqueue' = rel.waitqueue
              /\ readyqueue' = rel.readyqueue
              /\ fatal' = rel.fatal
              /\ op' = [name |-> "release", r |-> r, ok |-> ~rel.fatal,
                        p |-> current]
              /\ snap' = IF snap.r = r /\ op.name = "run" THEN snap ELSE NoSnap
  /\ UNCHANGED <<policy, lifespan, age, prio_orig, want, more, req, current,
                 pc, hist>>

Init == Start(Policies)

Next ==
  \/ Fork(FALSE, NProc, MaxLife, MaxPrio)
  \/ Schedule(FALSE)
  \/ Acquire(FALSE)
  \/ Run
  \/ Release

Spec == Init /\ [][Next]_vars

\* Round-robin alone, with the trace of forks and dispatches; priorities play
\* no part in it
InitRR == Start({"rr"})

NextRR ==
  \/ Fork(TRUE, NProc, RRLife, 0)
  \/ Schedule(TRUE)
  \/ Acquire(TRUE)
  \/ Run
  \/ Release

SpecRR == InitRR /\ [][NextRR]_vars

\* The schedulers that use fcfs_acquire/fcfs_release, with one more process
\* and shorter lifespans
InitFCFS == Start({"fifo", "sjf", "srtf", "rr"})

NextFCFS ==
  \/ Fork(FALSE, NProcF, FLife, 0)
  \/ Schedule(FALSE)
  \/ Acquire(FALSE)
  \/ Run
  \/ Release

SpecFCFS == InitFCFS /\ [][NextFCFS]_vars


(* ======================== properties of the model ====================== *)
\* a current process that schedule() may go on running
Continuable ==
  current # NULL /\ status[current] # PROCESS_WAIT /\ age[current] < lifespan[current]

Last(q) == q[Len(q)]

\* number of queue links that hold p, over the ready queue and all wait queues
RECURSIVE LinksIn(_, _)
LinksIn(p, rs) ==
  IF rs = {} THEN 0
  ELSE LET r == CHOOSE x \in rs : TRUE
       IN  Count(waitqueue[r], p) + LinksIn(p, rs \ {r})
Links(p) == Count(readyqueue, p) + LinksIn(p, Res)

(* C1: acquire(r) succeeds exactly when r is free and then makes the caller *)
(* the owner and nothing else; on an owned resource it fails, leaves every  *)
(* owner as it is, puts the caller in WAIT and appends it at the tail of    *)
(* r's wait queue.  An owner only ever changes from free to the caller of a *)
(* successful acquire, or from the caller of release to free.               *)
C1_AcquireExclusive ==
  [][ /\ op'.name = "acquire" =>
           LET r == op'.r
           IN  /\ op'.ok <=> owner[r] = NULL
               /\ op'.ok => /\ owner' = [owner EXCEPT ![r] = current]
                            /\ waitqueue' = waitqueue
                            /\ status' = status
               /\ ~op'.ok => /\ owner' = owner
                             /\ status' = [status EXCEPT ![current] = PROCESS_WAIT]
                             /\ waitqueue' =
                                  [waitqueue EXCEPT ![r] = Append(@, current)]
      /\ \A r \in Res :
           owner'[r] # owner[r] =>
             \/ /\ op'.name = "acquire" /\ op'.r = r /\ op'.ok
                /\ owner[r] = NULL /\ owner'[r] = current
             \/ /\ op'.name = "release" /\ op'.r = r
                /\ owner[r] = current /\ owner'[r] = NULL
    ]_vars

\* a failed acquire has queued the caller behind an earlier waiter
C1_Witness ==
  /\ op.name = "acquire" /\ ~op.ok
  /\ owner[op.r] \in Procs \ {current}
  /\ status[current] = PROCESS_WAIT
  /\ Len(waitqueue[op.r]) = 2
  /\ Last(waitqueue[op.r]) = current

(* C2: no process is linked into more than one queue (the ready queue and   *)
(* the wait queues together hold it at most once), and the process that     *)
(* schedule() returned is linked into none.                                 *)
C2_QueueMembership ==
  /\ \A p \in Procs : Links(p) <= 1
  /\ (op.name = "schedule" /\ current # NULL) => Links(current) = 0

\* schedule() has preempted a process and requeued it while others wait
C2_Witness ==
  /\ op.name = "schedule" /\ current # NULL
  /\ op.p # NULL /\ op.p # current
  /\ Len(readyqueue) >= 1 /\ Last(readyqueue) = op.p
  /\ \E r \in Res : waitqueue[r] # <<>>

(* C3: under PIP a failed acquire by a process of higher prio than the      *)
(* owner raises the owner's prio to the caller's in that very call; a       *)
(* release sets the releasing owner's prio back to prio_orig, and the       *)
(* waiter it selects leaves the wait queue, becomes READY and is appended   *)
(* to the ready queue.                                                      *)
C3_InheritRestore ==
  [][ policy = "pip" =>
        /\ (op'.name = "acquire" /\ ~op'.ok /\ prio[owner[op'.r]] < prio[current])
             => prio'[owner[op'.r]] = prio[current]
        /\ (op'.name = "release" /\ op'.ok) =>
             /\ prio'[current] = prio_orig[current]
             /\ waitqueue[op'.r] # <<>> =>
                  \E w \in Procs :
                    /\ InQueue(waitqueue[op'.r], w)
                    /\ waitqueue'[op'.r] = Remove(waitqueue[op'.r], w)
                    /\ Len(waitqueue'[op'.r]) = Len(waitqueue[op'.r]) - 1
                    /\ status'[w] = PROCESS_READY
                    /\ readyqueue' = Append(readyqueue, w)
    ]_vars

\* an owner that inherited from a waiter of higher prio has released: it is
\* back at its own prio and the waiter is READY at the ready-queue tail
C3_Witness ==
  /\ policy = "pip" /\ op.name = "release" /\ op.ok
  /\ readyqueue # <<>>
  /\ want[Last(readyqueue)] = op.r
  /\ status[Last(readyqueue)] = PROCESS_READY
  /\ prio[op.p] = prio_orig[op.p]
  /\ prio[Last(readyqueue)] > prio[op.p]

\* the priority the policy compares: prio_orig (Priority), prio (PIP)
SchedPrio == IF policy = "pip" THEN prio ELSE prio_orig

C5_SrtfMinimal ==
  [][ ( policy = "srtf" /\ op'.name = "schedule" ) =>
        /\ current' # NULL =>
             \A i \in 1..Len(readyqueue') :
               remaining'[current'] <= remaining'[readyqueue'[i]]
        /\ Continuable =>
             IF \E i \in 1..Len(readyqueue) :
                  remaining[readyqueue[i]] < remaining[current]
             THEN /\ current' # current
                  /\ readyqueue' = Remove(Append(readyqueue, current), current')
                  /\ Last(readyqueue') = current
             ELSE current' = current /\ readyqueue' = readyqueue
        /\ ~Continuable => \A i \in 1..Len(readyqueue') : readyqueue'[i] # current
    ]_vars

\* srtf_schedule() has preempted the running process for a shorter one
C5_Witness ==
  /\ policy = "srtf" /\ op.name = "schedule"
  /\ current # NULL /\ op.p # NULL /\ op.p # current
  /\ readyqueue # <<>> /\ Last(readyqueue) = op.p
  /\ remaining[current] < remaining[op.p]

RRExpected == <<1, 2, 1, 2, 1, NULL>>

\* the trace starts with the arrivals of P1 and P2 and holds dispatches only after
RRScenario(h) ==
  /\ Len(h) >= 2
  /\ h[1] = <<"fork", 1, 3>>
  /\ h[2] = <<"fork", 2, 2>>
  /\ \A i \in 3..Len(h) : h[i][1] = "sched"

RRScenarioOK ==
  RRScenario(hist) =>
    /\ \A i \in 3..Len(hist) : i <= 8 => hist[i][2] = RRExpected[i - 2]
    /\ (Len(hist) = 7 /\ op.name = "run") =>
         (status[2] = PROCESS_EXIT /\ age[1] = lifespan[1] /\ readyqueue = <<>>)
    /\ Len(hist) = 8 => (status[1] = PROCESS_EXIT /\ status[2] = PROCESS_EXIT)

C7_RoundRobinQuantum ==
  [][ /\ ( policy = "rr" /\ op'.name = "schedule" /\ Continuable ) =>
           IF readyqueue # <<>>
           THEN /\ current' = Head(readyqueue)
                /\ readyqueue' = Append(Tail(readyqueue), current)
           ELSE current' = current /\ readyqueue' = readyqueue
      /\ RRScenarioOK'
    ]_vars

\* the scenario has run to its end: five dispatches and an idle sixth call
C7_Witness ==
  /\ RRScenario(hist) /\ Len(hist) = 8
  /\ op.name = "schedule" /\ current = NULL
  /\ status[1] = PROCESS_EXIT /\ status[2] = PROCESS_EXIT

C8_RoundTripButPrio ==
  (op.name = "release" /\ snap.r # 0) =>
    /\ owner[snap.r] = NULL
    /\ waitqueue[snap.r] = <<>>
    /\ readyqueue = snap.readyqueue
    /\ prio[op.p] = prio_orig[op.p]

(* C9: every process linked into a wait queue has status WAIT, so the       *)
(* assertions of fcfs_release, prio_release and pip_release (the caller is  *)
(* the owner, the chosen waiter is in WAIT) never fail.                     *)
C9_WaitersAreWaiting ==
  /\ ~fatal
  /\ \A r \in Res : \A i \in 1..Len(waitqueue[r]) :
       status[waitqueue[r][i]] = PROCESS_WAIT

\* a release has woken one waiter and left another in the wait queue
C9_Witness ==
  /\ op.name = "release" /\ op.ok
  /\ waitqueue[op.r] # <<>>
  /\ \E w \in Procs : /\ want[w] = op.r /\ status[w] = PROCESS_READY
                      /\ InQueue(readyqueue, w)

(* C10: schedule() returns no process exactly when the ready queue is empty *)
(* and the current process is absent, in WAIT or finished.                  *)
C10_IdleIffNothingToRun ==
  [][ op'.name = "schedule" =>
        (current' = NULL <=> (readyqueue = <<>> /\ ~Continuable))
    ]_vars

\* schedule() found nothing to run because the current process is blocked
C10_Witness ==
  /\ op.name = "schedule" /\ current = NULL
  /\ op.p # NULL /\ status[op.p] = PROCESS_WAIT
  /\ readyqueue = <<>>

(* C11: schedule() never returns a process whose age equals its lifespan    *)
(* and never leaves one in the ready queue: a finished current process is   *)
(* dropped, not requeued and not returned.                                  *)
C11_FinishedNeverSelected ==
  [][ op'.name = "schedule" =>
        /\ current' # NULL => age[current'] < lifespan[current']
        /\ \A i \in 1..Len(readyqueue') :
             age[readyqueue'[i]] < lifespan[readyqueue'[i]]
        /\ (current # NULL /\ age[current] = lifespan[current]) =>
             (current' # current /\ ~InQueue(readyqueue', current))
    ]_vars

\* a finished process was dropped and another dispatched, with others ready
C11_Witness ==
  /\ op.name = "schedule" /\ op.p # NULL /\ status[op.p] = PROCESS_EXIT
  /\ current # NULL /\ readyqueue # <<>>

\* the waiter a release has to pick: the first one of maximal priority f
FirstMax(q, f) ==
  q[CHOOSE i \in 1..Len(q) :
      /\ \A j \in 1..Len(q) : f[q[j]] <= f[q[i]]
      /\ \A j \in 1..(i - 1) : f[q[j]] < f[q[i]]]

(* C12: prio_release(r) on a non-empty wait queue removes the waiter of     *)
(* maximal prio_orig (the first such in queue order), sets it READY and     *)
(* appends it to the ready queue; the other waiters stay in the wait queue. *)
C12_PrioReleaseWakesMax ==
  [][ ( policy = "prio" /\ op'.name = "release" /\ waitqueue[op'.r] # <<>> ) =>
        LET w == FirstMax(waitqueue[op'.r], prio_orig)
        IN  /\ waitqueue'[op'.r] = Remove(waitqueue[op'.r], w)
            /\ status'[w] = PROCESS_READY
            /\ readyqueue' = Append(readyqueue, w)
    ]_vars

(* C13: pip_release(r) on a non-empty wait queue removes exactly the waiter *)
(* of maximal current prio (the first such in queue order); the others stay *)
(* in r's wait queue in their order and keep status WAIT.                   *)
C13_PipReleaseWakesMax ==
  [][ ( policy = "pip" /\ op'.name = "release" /\ waitqueue[op'.r] # <<>> ) =>
        LET w == FirstMax(waitqueue[op'.r], prio)
        IN  /\ waitqueue'[op'.r] = Remove(waitqueue[op'.r], w)
            /\ Len(waitqueue'[op'.r]) = Len(waitqueue[op'.r]) - 1
            /\ \A i \in 1..Len(waitqueue'[op'.r]) :
                 status'[waitqueue'[op'.r][i]] = PROCESS_WAIT
    ]_vars

\* the waiter taken out had a higher prio than one that stays behind
C13_Witness ==
  /\ policy = "pip" /\ op.name = "release" /\ op.ok
  /\ waitqueue[op.r] # <<>> /\ readyqueue # <<>>
  /\ want[Last(readyqueue)] = op.r
  /\ prio[Last(readyqueue)] > prio[Head(waitqueue[op.r])]

(* C14: in pip_release the selected waiter is set READY and appended to the *)
(* ready queue only if it has no further acquisition outstanding; one that  *)
(* still has some is neither made READY nor put on the ready queue.         *)
C14_PipWakeCondition ==
  [][ ( policy = "pip" /\ op'.name = "release" /\ waitqueue[op'.r] # <<>> ) =>
        LET w == FirstMax(waitqueue[op'.r], prio)
        IN  (status'[w] = PROCESS_READY \/ InQueue(readyqueue', w))
              => more[w] = {}
    ]_vars

(* C15: prio >= prio_orig for every process after every step; prio_orig of  *)
(* a live process is never modified, and under the FCFS and Priority        *)
(* variants prio is never modified either.                                  *)
C15_InheritanceOnlyRaises ==
  [][ /\ \A p \in Procs : prio'[p] >= prio_orig'[p]
      /\ \A p \in Procs :
           (status[p] # PROCESS_NONE /\ status'[p] # PROCESS_EXIT) =>
             /\ prio_orig'[p] = prio_orig[p]
             /\ policy # "pip" => prio'[p] = prio[p]
    ]_vars

\* pip_schedule dispatches a process that runs on an inherited priority
C15_Witness ==
  /\ policy = "pip" /\ op.name = "schedule" /\ current # NULL
  /\ prio[current] > prio_orig[current]

(* C16: under PIP, in every reachable state, the prio of the owner of a     *)
(* resource is at least the prio of every process in its wait queue.        *)
C16_HolderDominatesWaiters ==
  policy = "pip" =>
    \A r \in Res : owner[r] # NULL =>
      \A i \in 1..Len(waitqueue[r]) : prio[owner[r]] >= prio[waitqueue[r][i]]

(* C17: a process in WAIT is linked in the wait queue of the resource it    *)
(* asked for and not in the ready queue; no schedule() returns it; it       *)
(* leaves WAIT and enters the ready queue only by a release() of that very  *)
(* resource, which makes it READY; until then it stays blocked.             *)
C17_ResumeOnlyByRelease ==
  [][ /\ \A p \in Procs : status[p] = PROCESS_WAIT =>
           /\ want[p] # 0 /\ InQueue(waitqueue[want[p]], p)
           /\ ~InQueue(readyqueue, p)
           /\ op'.name = "schedule" => current' # p
           /\ (status'[p] # PROCESS_WAIT \/ InQueue(readyqueue', p)) =>
                /\ op'.name = "release" /\ op'.r = want[p]
                /\ status'[p] = PROCESS_READY
                /\ InQueue(readyqueue', p)
                /\ ~InQueue(waitqueue'[want[p]], p)
      /\ (op'.name = "schedule" /\ current' # NULL) =>
           status[current'] # PROCESS_WAIT
    ]_vars

\* schedule() passes over a current process that has just blocked and
\* dispatches a process that a release has woken
C17_Witness ==
  /\ op.name = "schedule" /\ op.p # NULL /\ status[op.p] = PROCESS_WAIT
  /\ current # NULL /\ want[current] # 0

(* C18: with fcfs_acquire/fcfs_release a resource is served in requesting   *)
(* order: fcfs_release wakes exactly the head waiter and appends it to the  *)
(* ready queue, and of two processes refused the same resource, the one     *)
(* refused first becomes its owner first.                                   *)
C18_FcfsServiceOrder ==
  [][ (policy \in {"fifo", "sjf", "srtf", "rr"}) =>
        /\ (op'.name = "release" /\ waitqueue[op'.r] # <<>>) =>
             /\ waitqueue'[op'.r] = Tail(waitqueue[op'.r])
             /\ readyqueue' = Append(readyqueue, Head(waitqueue[op'.r]))
             /\ status'[Head(waitqueue[op'.r])] = PROCESS_READY
        /\ (op'.name = "acquire" /\ op'.ok /\ InQueue(req[op'.r], current)) =>
             current = Head(req[op'.r])
    ]_vars

(* C19: the process prio_schedule() (by prio_orig) or pip_schedule() (by    *)
(* prio) returns has a priority at least that of every process left in the *)
(* ready queue; when some ready process has a priority strictly greater     *)
(* than a continuable current process, the current process is appended to   *)
(* the ready-queue tail and the first ready process of maximal priority is  *)
(* returned.                                                                *)
C19_PriorityDispatchMaximal ==
  [][ ( policy \in {"prio", "pip"} /\ op'.name = "schedule" ) =>
        /\ current' # NULL =>
             \A i \in 1..Len(readyqueue') :
               SchedPrio[current'] >= SchedPrio[readyqueue'[i]]
        /\ ( /\ Continuable
             /\ \E i \in 1..Len(readyqueue) :
                  SchedPrio[readyqueue[i]] > SchedPrio[current] ) =>
             /\ current' = FirstMax(readyqueue, SchedPrio)
             /\ readyqueue' =
                  Append(Remove(readyqueue, current'), current)
    ]_vars

\* a higher-priority process was dispatched out of a ready queue of several
\* and the preempted process now stands at the tail
C19_Witness ==
  /\ policy \in {"prio", "pip"} /\ op.name = "schedule"
  /\ op.p # NULL /\ current # NULL /\ current # op.p
  /\ Len(readyqueue) >= 2 /\ Last(readyqueue) = op.p
  /\ status[op.p] = PROCESS_READY
  /\ SchedPrio[current] > SchedPrio[op.p]

(* C20: under rr_schedule the process at position k of the ready queue is   *)
(* returned within the next k schedule() calls: a schedule() call returns   *)
(* the process at position 1 and moves the one at position k > 1 to         *)
(* position k - 1, and no other step changes the position of a queued       *)
(* process (forks, wake-ups and requeues append at the tail); hence         *)
(* processes are dispatched in the order they entered the ready queue.      *)
C20_RoundRobinNoStarvation ==
  [][ policy = "rr" =>
        \A k \in 1..Len(readyqueue) :
          IF op'.name = "schedule"
          THEN IF k = 1
               THEN current' = readyqueue[1]
               ELSE Len(readyqueue') >= k - 1 /\ readyqueue'[k - 1] = readyqueue[k]
          ELSE Len(readyqueue') >= k /\ readyqueue'[k] = readyqueue[k]
    ]_vars

\* a schedule() call took the head of a queue of several processes and put
\* the preempted process behind those that were waiting
C20_Witness ==
  /\ policy = "rr" /\ op.name = "schedule"
  /\ op.p # NULL /\ current # NULL /\ current # op.p
  /\ Len(readyqueue) >= 2 /\ Last(readyqueue) = op.p
====
